---- MODULE Spec2Model ----
(***************************************************************************)
(* Model of the day_05 almanac solver (src/day_05/src/lib.rs): the range   *)
(* overlap classification, the translation of matched pieces, the          *)
(* application of one category map to a list of id ranges, the recursive   *)
(* chain resolution of Almanac::convert, the two top-level queries and the  *)
(* parsers of the input text.                                              *)
(*                                                                         *)
(* An Option<T> is modelled as a sequence of length 0 (None) or 1 (Some),   *)
(* a &str as the sequence of its characters.                               *)
(***************************************************************************)
EXTENDS Naturals, Integers, Sequences, FiniteSets, TLC

\* ------------------------------------------------------------------ bounds
\* largest start of a rule's source range or of an id range
MaxStart == 2
\* largest length of a rule or of an id range
MaxLen == 3
\* largest destination start of a rule
MaxDest == 1
\* largest seed number of an almanac
MaxSeed == 2
\* the nested calls of convert the stack has room for
MaxDepth == 4
\* every text of up to that many characters is parsed
MaxText == 3

VARIABLES
    pc,          \* position of the running operation
    \* Range::overlap / Range::translate
    range,       \* the Range (rule) handed to overlap / translate
    source_id,   \* the SourceIdRange handed to overlap
    overlap_out, \* the RangeOverlap returned by overlap
    translated,  \* Option<SourceIdRange>: the result of translate on the matching piece
    \* CategoryMap::calculate / calculate_single
    map,         \* the CategoryMap (self)
    source_ids,  \* the slice handed to calculate
    next_id,     \* index of the element of source_ids the flat_map handles next
    ridx,        \* index of the rule the loop of calculate_single handles next
    remaining,   \* calculate_single: let mut remaining
    overlaps,    \* calculate_single: let mut overlaps, a Vec of (matching, range)
    output,      \* the Vec collected by calculate so far
    \* Almanac::convert
    almanac,     \* the Almanac (self)
    frames,      \* convert: the (source_id, source) of the nested calls, outermost first
    conv_dst,    \* convert: destionation, the same in every nested call
    applied,     \* the indexes in almanac.maps of the maps applied so far, in order
    conv_ret,    \* Option<Vec<SourceIdRange>>: what the outermost convert returned
    \* process_part1 / process_part2
    query,       \* "convert", "part1" or "part2": the entry point that is running
    seed_ranges, \* process_part2: let seed_ranges
    seed_idx,    \* index of the seed (range) the flat_map handles next
    found,       \* the id ranges the flat_map has yielded so far
    answer,      \* the number returned
    \* parse_input / Almanac::from_str
    text,        \* the &str handed to the parser
    parsed       \* Result<Almanac, AOCError>: what Almanac::from_str returned

overlapVars == <<range, source_id, overlap_out, translated>>
calcVars == <<map, source_ids, next_id, ridx, remaining, overlaps, output>>
convVars == <<frames, conv_dst, applied, conv_ret>>
procVars == <<query, seed_ranges, seed_idx, found, answer>>
parseVars == <<text, parsed>>
vars == <<pc, overlapVars, calcVars, almanac, convVars, procVars, parseVars>>

\* ------------------------------------------------------------------ data
\* struct SourceIdRange { start, length }
SourceIdRange(start, length) == [start |-> start, length |-> length]

\* struct Range { destination_start, source_start, length }
Range(destination_start, source_start, length) ==
    [destination_start |-> destination_start,
     source_start |-> source_start,
     length |-> length]

\* struct RangeOverlap { matching: Option<SourceIdRange>, remaining: Vec<SourceIdRange> }
RangeOverlap(m, rest) == [matching |-> m, remaining |-> rest]

Ranges ==
    {Range(d, s, l) : d \in {0, MaxDest}, s \in 0..MaxStart, l \in 0..MaxLen}

SourceIdRanges ==
    {SourceIdRange(s, l) : s \in 0..MaxStart, l \in 0..MaxLen}

\* struct CategoryMap { source, destination, ranges }
CategoryMap(src, dst, rs) == [source |-> src, destination |-> dst, ranges |-> rs]

SeqsUpTo(S, n) == UNION {[1..k -> S] : k \in 0..n}

\* the rule lists of a category map: none, one or two rules
RangeLists == SeqsUpTo(Ranges, 2)

\* the slices handed to calculate: none, one or two id ranges
SourceIdLists == SeqsUpTo(SourceIdRanges, 2)

\* struct Almanac { seeds, maps }
Almanac(sds, ms) == [seeds |-> sds, maps |-> ms]

\* ------------------------------------------------------------------ Range::overlap
\* first and last branch: the rule lies entirely beside the id range
OverlapNone(r, sid) == RangeOverlap(<<>>, <<sid>>)

\* OverlapLeftEdge with the whole span of the rule as the matching portion
OverlapLeftEdge_WholeRule(r, sid) ==
    LET range_end == r.source_start + r.length
        source_id_end == sid.start + sid.length
    IN  RangeOverlap(<<SourceIdRange(r.source_start, r.length)>>,
                     <<SourceIdRange(range_end, source_id_end - range_end)>>)

\* second branch: the rule starts before the id range and ends inside it
OverlapLeftEdge(r, sid) ==
    LET range_end == r.source_start + r.length
        source_id_end == sid.start + sid.length
    IN  RangeOverlap(<<SourceIdRange(sid.start, range_end - sid.start)>>,
                     <<SourceIdRange(range_end, source_id_end - range_end)>>)

\* third branch: the rule strictly contains the id range
OverlapContains(r, sid) == RangeOverlap(<<sid>>, <<>>)

\* OverlapInside without the piece that follows the rule
OverlapInside_NoSuffix(r, sid) ==
    LET range_start == r.source_start
        prefix == IF range_start > sid.start
                  THEN <<SourceIdRange(sid.start, range_start - sid.start)>>
                  ELSE <<>>
    IN  RangeOverlap(<<SourceIdRange(range_start, r.length)>>, prefix)

\* fourth branch: the rule lies inside the id range
OverlapInside(r, sid) ==
    LET range_start == r.source_start
        range_end == r.source_start + r.length
        source_id_end == sid.start + sid.length
        prefix == IF range_start > sid.start
                  THEN <<SourceIdRange(sid.start, range_start - sid.start)>>
                  ELSE <<>>
        suffix == IF range_end < source_id_end
                  THEN <<SourceIdRange(range_end, source_id_end - range_end)>>
                  ELSE <<>>
    IN  RangeOverlap(<<SourceIdRange(range_start, r.length)>>, prefix \o suffix)

\* OverlapRightEdge with the matching and the remaining piece exchanged
OverlapRightEdge_Swapped(r, sid) ==
    LET range_start == r.source_start
        source_id_end == sid.start + sid.length
    IN  RangeOverlap(<<SourceIdRange(sid.start, range_start - sid.start)>>,
                     <<SourceIdRange(range_start, source_id_end - range_start)>>)

\* fifth branch: the rule starts inside the id range and ends after it
OverlapRightEdge(r, sid) ==
    LET range_start == r.source_start
        source_id_end == sid.start + sid.length
    IN  RangeOverlap(<<SourceIdRange(range_start, source_id_end - range_start)>>,
                     <<SourceIdRange(sid.start, range_start - sid.start)>>)

\* the number (1..6) of the branch Range::overlap takes
OverlapBranch(r, sid) ==
    LET range_start == r.source_start
        range_end == r.source_start + r.length
        source_id_start == sid.start
        source_id_end == sid.start + sid.length
    IN  IF range_end < source_id_start THEN 1
        ELSE IF /\ range_start < source_id_start
                /\ range_end >= source_id_start
                /\ range_end <= source_id_end THEN 2
        ELSE IF range_start < source_id_start /\ range_end > source_id_end THEN 3
        ELSE IF range_start >= source_id_start /\ range_end <= source_id_end THEN 4
        ELSE IF range_start <= source_id_end /\ range_end > source_id_end THEN 5
        ELSE 6

overlap(r, sid) ==
    CASE OverlapBranch(r, sid) = 1 -> OverlapNone(r, sid)
      [] OverlapBranch(r, sid) = 2 -> OverlapLeftEdge(r, sid)
      [] OverlapBranch(r, sid) = 3 -> OverlapContains(r, sid)
      [] OverlapBranch(r, sid) = 4 -> OverlapInside(r, sid)
      [] OverlapBranch(r, sid) = 5 -> OverlapRightEdge(r, sid)
      [] OTHER -> OverlapNone(r, sid)

\* ------------------------------------------------------------------ Range::translate
\* source_id.start - self.source_start is a usize subtraction: below zero it
\* panics (debug build) or wraps (release build)
TranslateUnderflows(r, sid) == sid.start < r.source_start

translate(r, sid) ==
    SourceIdRange(sid.start - r.source_start + r.destination_start, sid.length)

\* ------------------------------------------------------------------ CategoryMap::calculate_single
\* RemainingLoop that keeps the whole piece in remaining_new, matched or not
RECURSIVE RemainingLoop_KeepsPiece(_, _)
RemainingLoop_KeepsPiece(r, rem) ==
    IF rem = <<>>
    THEN [overlaps |-> <<>>, remaining |-> <<>>]
    ELSE LET o == overlap(r, Head(rem))
             rest == RemainingLoop_KeepsPiece(r, Tail(rem))
             pushed == IF o.matching # <<>>
                       THEN <<[piece |-> o.matching[1], range |-> r]>>
                       ELSE <<>>
         IN  [overlaps |-> pushed \o rest.overlaps,
              remaining |-> <<Head(rem)>> \o rest.remaining]

\* for sid in remaining.iter() { ... }: one rule against every remaining piece;
\* the matching pieces are recorded with the rule, the rest is remaining_new
RECURSIVE RemainingLoop(_, _)
RemainingLoop(r, rem) ==
    IF rem = <<>>
    THEN [overlaps |-> <<>>, remaining |-> <<>>]
    ELSE LET o == overlap(r, Head(rem))
             rest == RemainingLoop(r, Tail(rem))
             pushed == IF o.matching # <<>>
                       THEN <<[piece |-> o.matching[1], range |-> r]>>
                       ELSE <<>>
         IN  [overlaps |-> pushed \o rest.overlaps,
              remaining |-> o.remaining \o rest.remaining]

\* RangesLoop without remaining = remaining_new: every rule sees the whole id range
RECURSIVE RangesLoop_StaleRemaining(_, _, _)
RangesLoop_StaleRemaining(rs, rem, ovl) ==
    IF rs = <<>>
    THEN [overlaps |-> ovl, remaining |-> rem]
    ELSE LET pass == RemainingLoop(Head(rs), rem)
         IN  RangesLoop_StaleRemaining(Tail(rs), rem, ovl \o pass.overlaps)

\* for range in self.ranges.iter() { ... }
RECURSIVE RangesLoop(_, _, _)
RangesLoop(rs, rem, ovl) ==
    IF rs = <<>>
    THEN [overlaps |-> ovl, remaining |-> rem]
    ELSE LET pass == RemainingLoop(Head(rs), rem)
         IN  RangesLoop(Tail(rs), pass.remaining, ovl \o pass.overlaps)

\* for (source_id, range) in overlaps.iter() { result.push(range.translate(source_id)) }
RECURSIVE TranslateAll(_)
TranslateAll(ovl) ==
    IF ovl = <<>> THEN <<>>
    ELSE <<translate(Head(ovl).range, Head(ovl).piece)>> \o TranslateAll(Tail(ovl))

\* FilterNonEmpty without the filter
FilterNonEmpty_KeepAll(s) == s

\* .filter(|source_id| source_id.length > 0)
FilterNonEmpty(s) == SelectSeq(s, LAMBDA sid : sid.length > 0)

\* CollectResult without result.append(&mut remaining)
CollectResult_NoRemaining(ovl, rem) ==
    SelectSeq(TranslateAll(ovl), LAMBDA sid : sid.length > 0)

\* CollectResult with the remaining pieces ahead of the translated ones
CollectResult_RemainingFirst(ovl, rem) ==
    SelectSeq(rem \o TranslateAll(ovl), LAMBDA sid : sid.length > 0)

\* the tail of calculate_single: translated pieces, then the remaining ones,
\* without the ranges of length 0
CollectResult(ovl, rem) == FilterNonEmpty(TranslateAll(ovl) \o rem)

calculate_single(m, sid) ==
    LET done == RangesLoop(m.ranges, <<sid>>, <<>>)
    IN  CollectResult(done.overlaps, done.remaining)

\* ------------------------------------------------------------------ CategoryMap::calculate
\* calculate that stops after the first id range of the slice
calculate_FirstOnly(m, ids) ==
    IF ids = <<>> THEN <<>> ELSE calculate_single(m, Head(ids))

RECURSIVE calculate(_, _)
calculate(m, ids) ==
    IF ids = <<>> THEN <<>>
    ELSE calculate_single(m, Head(ids)) \o calculate(m, Tail(ids))

\* ------------------------------------------------------------------ idle parts
NoRange == Range(0, 0, 0)
NoSourceId == SourceIdRange(0, 0)
NoMap == [source |-> "", destination |-> "", ranges |-> <<>>]

OverlapIdle ==
    /\ range = NoRange
    /\ source_id = NoSourceId
    /\ overlap_out = RangeOverlap(<<>>, <<>>)
    /\ translated = <<>>

CalcIdle ==
    /\ map = NoMap
    /\ source_ids = <<>>
    /\ next_id = 1
    /\ ridx = 1
    /\ remaining = <<>>
    /\ overlaps = <<>>
    /\ output = <<>>

ConvIdle ==
    /\ almanac = Almanac(<<>>, <<>>)
    /\ frames = <<>>
    /\ conv_dst = ""
    /\ applied = <<>>
    /\ conv_ret = <<>>

ProcIdle ==
    /\ query = ""
    /\ seed_ranges = <<>>
    /\ seed_idx = 1
    /\ found = <<>>
    /\ answer = 0

\* Result<T, AOCError>: Ok(v) and Err(e)
Ok(v) == [err |-> "", val |-> <<v>>]
Err(e) == [err |-> e, val |-> <<>>]

\* no parser has returned
NoResult == [err |-> "", val |-> <<>>]

ParseIdle ==
    /\ text = <<>>
    /\ parsed = NoResult

\* ------------------------------------------------------------------ overlap, then translate
InitOverlap ==
    /\ pc = "overlap"
    /\ range \in Ranges
    /\ source_id \in SourceIdRanges
    /\ overlap_out = RangeOverlap(<<>>, <<>>)
    /\ translated = <<>>
    /\ CalcIdle
    /\ ConvIdle
    /\ ProcIdle
    /\ ParseIdle

\* let mut overlap = range.overlap(sid)
OverlapCall ==
    /\ pc = "overlap"
    /\ overlap_out' = overlap(range, source_id)
    /\ pc' = "overlapped"
    /\ UNCHANGED <<range, source_id, translated, calcVars, almanac, convVars, procVars, parseVars>>

\* range.translate(source_id) on the matching piece, as calculate_single calls it
TranslateCall ==
    /\ pc = "overlapped"
    /\ overlap_out.matching # <<>>
    /\ IF TranslateUnderflows(range, overlap_out.matching[1])
       THEN pc' = "translate_underflow" /\ translated' = translated
       ELSE /\ pc' = "translated"
            /\ translated' = <<translate(range, overlap_out.matching[1])>>
    /\ UNCHANGED <<range, source_id, overlap_out, calcVars, almanac, convVars, procVars, parseVars>>

NextOverlap == OverlapCall \/ TranslateCall

SpecOverlap == InitOverlap /\ [][NextOverlap]_vars

\* ------------------------------------------------------------------ calculate_single, step by step
InitSingle ==
    /\ pc = "calculate"
    /\ map \in {CategoryMap("seed", "soil", rs) : rs \in RangeLists}
    /\ source_ids \in {<<sid>> : sid \in SourceIdRanges}
    /\ next_id = 1
    /\ ridx = 1
    /\ remaining = <<>>
    /\ overlaps = <<>>
    /\ output = <<>>
    /\ OverlapIdle
    /\ ConvIdle
    /\ ProcIdle
    /\ ParseIdle

\* flat_map hands the next id range to calculate_single:
\* let mut remaining = vec![*source_id]; let mut overlaps = Vec::new();
SingleBegin ==
    /\ pc = "calculate"
    /\ next_id <= Len(source_ids)
    /\ remaining' = <<source_ids[next_id]>>
    /\ overlaps' = <<>>
    /\ ridx' = 1
    /\ pc' = "ranges"
    /\ UNCHANGED <<map, source_ids, next_id, output, overlapVars, almanac, convVars, procVars, parseVars>>

\* SingleRange that hands every rule the whole id range, not what the rules
\* before it have left
SingleRange_WholeIdRange ==
    /\ pc = "ranges"
    /\ ridx <= Len(map.ranges)
    /\ LET pass == RemainingLoop(map.ranges[ridx], <<source_ids[next_id]>>)
       IN  /\ overlaps' = overlaps \o pass.overlaps
           /\ remaining' = pass.remaining
    /\ ridx' = ridx + 1
    /\ UNCHANGED <<pc, map, source_ids, next_id, output, overlapVars, almanac, convVars, procVars, parseVars>>

\* one iteration of for range in self.ranges.iter()
SingleRange ==
    /\ pc = "ranges"
    /\ ridx <= Len(map.ranges)
    /\ LET pass == RemainingLoop(map.ranges[ridx], remaining)
       IN  /\ overlaps' = overlaps \o pass.overlaps
           /\ remaining' = pass.remaining
    /\ ridx' = ridx + 1
    /\ UNCHANGED <<pc, map, source_ids, next_id, output, overlapVars, almanac, convVars, procVars, parseVars>>

\* after the loop: translate, append the remaining ranges, filter, and the
\* flat_map appends the result to the collected Vec
SingleEnd ==
    /\ pc = "ranges"
    /\ ridx > Len(map.ranges)
    /\ IF \E i \in 1..Len(overlaps) : TranslateUnderflows(overlaps[i].range, overlaps[i].piece)
       THEN pc' = "translate_underflow" /\ UNCHANGED <<output, next_id>>
       ELSE /\ output' = output \o CollectResult(overlaps, remaining)
            /\ next_id' = next_id + 1
            /\ pc' = "calculate"
    /\ UNCHANGED <<map, source_ids, ridx, remaining, overlaps, overlapVars, almanac, convVars, procVars, parseVars>>

\* .collect()
CalculateReturn ==
    /\ pc = "calculate"
    /\ next_id > Len(source_ids)
    /\ pc' = "calculated"
    /\ UNCHANGED <<calcVars, overlapVars, almanac, convVars, procVars, parseVars>>

NextSingle == SingleBegin \/ SingleRange \/ SingleEnd \/ CalculateReturn

SpecSingle == InitSingle /\ [][NextSingle]_vars

\* ------------------------------------------------------------------ calculate on a slice
InitCalc ==
    /\ pc = "calculate"
    /\ map \in {CategoryMap("seed", "soil", rs) : rs \in RangeLists}
    /\ source_ids \in SourceIdLists
    /\ next_id = 1
    /\ ridx = 1
    /\ remaining = <<>>
    /\ overlaps = <<>>
    /\ output = <<>>
    /\ OverlapIdle
    /\ ConvIdle
    /\ ProcIdle
    /\ ParseIdle

\* .flat_map(|source_id| self.calculate_single(source_id)) on the next element
CalculateElement ==
    /\ pc = "calculate"
    /\ next_id <= Len(source_ids)
    /\ output' = output \o calculate_single(map, source_ids[next_id])
    /\ next_id' = next_id + 1
    /\ UNCHANGED <<pc, map, source_ids, ridx, remaining, overlaps, overlapVars, almanac, convVars, procVars, parseVars>>

NextCalc == CalculateElement \/ CalculateReturn

SpecCalc == InitCalc /\ [][NextCalc]_vars

\* ------------------------------------------------------------------ Almanac::convert
\* FirstDirect that compares the source only
RECURSIVE FirstDirect_SourceOnly(_, _, _, _)
FirstDirect_SourceOnly(ms, src, dst, i) ==
    IF i > Len(ms) THEN 0
    ELSE IF ms[i].source = src THEN i
    ELSE FirstDirect_SourceOnly(ms, src, dst, i + 1)

\* the index of the first map that has the requested source and destination,
\* 0 when there is none (the first for loop)
RECURSIVE FirstDirect(_, _, _, _)
FirstDirect(ms, src, dst, i) ==
    IF i > Len(ms) THEN 0
    ELSE IF ms[i].source = src /\ ms[i].destination = dst THEN i
    ELSE FirstDirect(ms, src, dst, i + 1)

\* FirstFromSource that compares the destination of the map with the source asked for
RECURSIVE FirstFromSource_ByDestination(_, _, _)
FirstFromSource_ByDestination(ms, src, i) ==
    IF i > Len(ms) THEN 0
    ELSE IF ms[i].destination = src THEN i
    ELSE FirstFromSource_ByDestination(ms, src, i + 1)

\* the index of the first map that has the requested source, 0 when there is
\* none (the second for loop)
RECURSIVE FirstFromSource(_, _, _)
FirstFromSource(ms, src, i) ==
    IF i > Len(ms) THEN 0
    ELSE IF ms[i].source = src THEN i
    ELSE FirstFromSource(ms, src, i + 1)

\* the arguments of one call of convert
Frame(ids, src) == [source_id |-> ids, source |-> src]

\* the innermost call
Top == frames[Len(frames)]

\* return Some(map.calculate(source_id)); every enclosing call returns it on
ConvertDirect ==
    /\ pc = "convert"
    /\ LET i == FirstDirect(almanac.maps, Top.source, conv_dst, 1)
       IN  /\ i # 0
           /\ conv_ret' = <<calculate(almanac.maps[i], Top.source_id)>>
           /\ applied' = Append(applied, i)
    /\ pc' = "converted"
    /\ UNCHANGED <<frames, conv_dst, almanac, procVars, overlapVars, calcVars, parseVars>>

\* ConvertFollow over maps kept in no order: any map with the source is taken
ConvertFollow_AnyTable ==
    /\ pc = "convert"
    /\ FirstDirect(almanac.maps, Top.source, conv_dst, 1) = 0
    /\ Len(frames) < MaxDepth
    /\ \E i \in 1..Len(almanac.maps) :
          /\ almanac.maps[i].source = Top.source
          /\ frames' = Append(frames, Frame(calculate(almanac.maps[i], Top.source_id),
                                            almanac.maps[i].destination))
          /\ applied' = Append(applied, i)
    /\ UNCHANGED <<pc, conv_dst, conv_ret, almanac, procVars, overlapVars, calcVars, parseVars>>

\* ConvertFollow that calls convert with the source it was called with
ConvertFollow_SameSource ==
    /\ pc = "convert"
    /\ FirstDirect(almanac.maps, Top.source, conv_dst, 1) = 0
    /\ Len(frames) < MaxDepth
    /\ LET i == FirstFromSource(almanac.maps, Top.source, 1)
       IN  /\ i # 0
           /\ frames' = Append(frames, Frame(calculate(almanac.maps[i], Top.source_id),
                                             Top.source))
           /\ applied' = Append(applied, i)
    /\ UNCHANGED <<pc, conv_dst, conv_ret, almanac, procVars, overlapVars, calcVars, parseVars>>

\* let new_source_id = map.calculate(source_id);
\* return self.convert(&new_source_id, &map.destination, destionation)
ConvertFollow ==
    /\ pc = "convert"
    /\ FirstDirect(almanac.maps, Top.source, conv_dst, 1) = 0
    /\ Len(frames) < MaxDepth
    /\ LET i == FirstFromSource(almanac.maps, Top.source, 1)
       IN  /\ i # 0
           /\ frames' = Append(frames, Frame(calculate(almanac.maps[i], Top.source_id),
                                             almanac.maps[i].destination))
           /\ applied' = Append(applied, i)
    /\ UNCHANGED <<pc, conv_dst, conv_ret, almanac, procVars, overlapVars, calcVars, parseVars>>

\* the recursion of the second loop with no room left on the stack
ConvertOverflow ==
    /\ pc = "convert"
    /\ FirstDirect(almanac.maps, Top.source, conv_dst, 1) = 0
    /\ FirstFromSource(almanac.maps, Top.source, 1) # 0
    /\ Len(frames) >= MaxDepth
    /\ pc' = "stack_overflow"
    /\ UNCHANGED <<frames, conv_dst, applied, conv_ret, almanac, procVars, overlapVars, calcVars, parseVars>>

\* ConvertNone that hands the ids back as they came
ConvertNone_PassThrough ==
    /\ pc = "convert"
    /\ FirstDirect(almanac.maps, Top.source, conv_dst, 1) = 0
    /\ FirstFromSource(almanac.maps, Top.source, 1) = 0
    /\ conv_ret' = <<Top.source_id>>
    /\ pc' = "converted"
    /\ UNCHANGED <<frames, conv_dst, applied, almanac, procVars, overlapVars, calcVars, parseVars>>

\* We should never end up here: None; every enclosing call returns it on
ConvertNone ==
    /\ pc = "convert"
    /\ FirstDirect(almanac.maps, Top.source, conv_dst, 1) = 0
    /\ FirstFromSource(almanac.maps, Top.source, 1) = 0
    /\ conv_ret' = <<>>
    /\ pc' = "converted"
    /\ UNCHANGED <<frames, conv_dst, applied, almanac, procVars, overlapVars, calcVars, parseVars>>

\* ------------------------------------------------------------------ process_part1, process_part2
\* the closure of process_part1's flat_map on the next seed:
\* almanac.convert(&[seed.into()], "seed", "location")
Part1Seed ==
    /\ pc = "next_seed"
    /\ query = "part1"
    /\ seed_idx <= Len(almanac.seeds)
    /\ frames' = <<Frame(<<SourceIdRange(almanac.seeds[seed_idx], 1)>>, "seed")>>
    /\ conv_dst' = "location"
    /\ applied' = <<>>
    /\ conv_ret' = <<>>
    /\ pc' = "convert"
    /\ UNCHANGED <<almanac, procVars, overlapVars, calcVars, parseVars>>

\* a chunk of one seed: panic!("Unexpected chunk size")
OddChunk(sds) == Len(sds) % 2 = 1

\* almanac.seeds.chunks(2).map(...).collect()
Chunks(sds) ==
    [k \in 1..(Len(sds) \div 2) |-> SourceIdRange(sds[2 * k - 1], sds[2 * k])]

Part2Chunks ==
    /\ pc = "chunks"
    /\ query = "part2"
    /\ IF OddChunk(almanac.seeds)
       THEN pc' = "panic" /\ seed_ranges' = seed_ranges
       ELSE pc' = "next_seed" /\ seed_ranges' = Chunks(almanac.seeds)
    /\ UNCHANGED <<query, seed_idx, found, answer, almanac, convVars, overlapVars, calcVars, parseVars>>

\* the closure of process_part2's flat_map on the next seed range:
\* almanac.convert(&[*seed_range], "seed", "location")
Part2Seed ==
    /\ pc = "next_seed"
    /\ query = "part2"
    /\ seed_idx <= Len(seed_ranges)
    /\ frames' = <<Frame(<<seed_ranges[seed_idx]>>, "seed")>>
    /\ conv_dst' = "location"
    /\ applied' = <<>>
    /\ conv_ret' = <<>>
    /\ pc' = "convert"
    /\ UNCHANGED <<almanac, procVars, overlapVars, calcVars, parseVars>>

\* .expect("Could not convert from seed to location"), and the flat_map
\* yields the ranges of the Vec
Expect ==
    /\ pc = "converted"
    /\ query \in {"part1", "part2"}
    /\ IF conv_ret = <<>>
       THEN pc' = "panic" /\ UNCHANGED <<found, seed_idx>>
       ELSE /\ found' = found \o conv_ret[1]
            /\ seed_idx' = seed_idx + 1
            /\ pc' = "next_seed"
    /\ UNCHANGED <<query, seed_ranges, answer, almanac, convVars, overlapVars, calcVars, parseVars>>

\* MinStart that takes the first id range instead of the smallest
MinStart_First(s) == s[1].start

\* impl Ord for SourceIdRange compares the starts; Iterator::min
RECURSIVE MinStart(_)
MinStart(s) ==
    IF Len(s) = 1 THEN s[1].start
    ELSE LET m == MinStart(Tail(s))
         IN  IF s[1].start <= m THEN s[1].start ELSE m

SeedCount == IF query = "part1" THEN Len(almanac.seeds) ELSE Len(seed_ranges)

\* .min().expect("Could not find minimum").start
Min ==
    /\ pc = "next_seed"
    /\ seed_idx > SeedCount
    /\ IF found = <<>>
       THEN pc' = "panic" /\ answer' = answer
       ELSE pc' = "done" /\ answer' = MinStart(found)
    /\ UNCHANGED <<query, seed_ranges, seed_idx, found, almanac, convVars, overlapVars, calcVars, parseVars>>

\* ------------------------------------------------------------------ the almanacs of the queries
\* the rules of the query almanacs: one id wide or as long as can be
QueryRanges == {r \in Ranges : r.length \in {1, MaxLen}}

\* the maps of a chain of two maps have at most one rule each
ShortRangeLists == SeqsUpTo(QueryRanges, 1)

\* the catalogs of the two queries: a direct seed-to-location map, a chain
\* over soil, a chain that stops at soil, and a catalog with no map from seed
QueryMaps ==
    {<<CategoryMap("seed", "location", rs)>> : rs \in SeqsUpTo(QueryRanges, 2)}
    \cup {<<CategoryMap("seed", "soil", r1), CategoryMap("soil", "location", r2)>> :
            r1 \in ShortRangeLists, r2 \in ShortRangeLists}
    \cup {<<CategoryMap("seed", "soil", r1)>> : r1 \in ShortRangeLists}
    \cup {<<CategoryMap("soil", "location", r1)>> : r1 \in ShortRangeLists}

\* the seed lists of process_part1: up to three seeds
SeedLists == SeqsUpTo(0..MaxSeed, 3)

\* the seed lists of process_part2: up to two pairs, or a last seed without a length
SeedPairLists == SeqsUpTo(0..MaxSeed, 4)

InitQuery(q, seedLists) ==
    /\ query = q
    /\ almanac \in {Almanac(sds, ms) : sds \in seedLists, ms \in QueryMaps}
    /\ seed_ranges = <<>>
    /\ seed_idx = 1
    /\ found = <<>>
    /\ answer = 0
    /\ frames = <<>>
    /\ conv_dst = ""
    /\ applied = <<>>
    /\ conv_ret = <<>>
    /\ OverlapIdle
    /\ CalcIdle
    /\ ParseIdle

InitPart1 == pc = "next_seed" /\ InitQuery("part1", SeedLists)

NextPart1 == Part1Seed \/ ConvertDirect \/ ConvertFollow \/ ConvertNone \/ Expect \/ Min

SpecPart1 == InitPart1 /\ [][NextPart1]_vars

InitPart2 == pc = "chunks" /\ InitQuery("part2", SeedPairLists)

NextPart2 ==
    Part2Chunks \/ Part2Seed \/ ConvertDirect \/ ConvertFollow \/ ConvertNone \/ Expect \/ Min

SpecPart2 == InitPart2 /\ [][NextPart2]_vars

\* either query on the same almanacs
InitQueries == InitPart1 \/ InitPart2

NextQueries ==
    \/ Part1Seed \/ Part2Chunks \/ Part2Seed
    \/ ConvertDirect \/ ConvertFollow \/ ConvertNone
    \/ Expect \/ Min

SpecQueries == InitQueries /\ [][NextQueries]_vars

\* ------------------------------------------------------------------ convert on any catalog
Categories == {"seed", "soil", "fertilizer", "location"}

\* the rule lists of the maps: no rule, or the rule that moves the ids below
\* MaxLen up by MaxDest
ConvertRangeLists == {<<>>, <<Range(MaxDest, 0, MaxLen)>>}

ConvertMaps ==
    SeqsUpTo({CategoryMap(src, dst, rs) :
                src \in Categories, dst \in Categories, rs \in ConvertRangeLists}, 3)

ConvertIdLists ==
    {<<SourceIdRange(0, MaxLen)>>,
     <<SourceIdRange(MaxStart, 1), SourceIdRange(0, 1)>>,
     <<SourceIdRange(1, MaxLen), SourceIdRange(0, 1)>>}

\* a call convert(source_id, "seed", destionation) from outside
InitConvert ==
    /\ pc = "convert"
    /\ query = "convert"
    /\ almanac \in {Almanac(<<>>, ms) : ms \in ConvertMaps}
    /\ frames \in {<<Frame(ids, "seed")>> : ids \in ConvertIdLists}
    /\ conv_dst \in {"seed", "location"}
    /\ applied = <<>>
    /\ conv_ret = <<>>
    /\ seed_ranges = <<>>
    /\ seed_idx = 1
    /\ found = <<>>
    /\ answer = 0
    /\ OverlapIdle
    /\ CalcIdle
    /\ ParseIdle

NextConvert == ConvertDirect \/ ConvertFollow \/ ConvertOverflow \/ ConvertNone

SpecConvert == InitConvert /\ [][NextConvert]_vars

\* ------------------------------------------------------------------ &str
\* the characters of the texts: two letters, three digits, the dash of a map
\* header, the space and the line feed
Letters == {"a", "b"}
Digits == {"0", "1", "2"}
Space == " "
LineFeed == "\n"
Chars == Letters \cup Digits \cup {"-", Space, LineFeed}

\* char::is_whitespace on these characters
Whitespace == {Space, LineFeed}

\* str::trim
RECURSIVE TrimStart(_)
TrimStart(s) ==
    IF s # <<>> /\ Head(s) \in Whitespace THEN TrimStart(Tail(s)) ELSE s

RECURSIVE TrimEnd(_)
TrimEnd(s) ==
    IF s # <<>> /\ s[Len(s)] \in Whitespace
    THEN TrimEnd(SubSeq(s, 1, Len(s) - 1))
    ELSE s

Trim(s) == TrimEnd(TrimStart(s))

\* the index of the first occurrence of the pattern sep in s, 0 when there is none
Find(s, sep) ==
    LET at == {i \in 1..Len(s) :
                  i + Len(sep) - 1 <= Len(s) /\ SubSeq(s, i, i + Len(sep) - 1) = sep}
    IN  IF at = {} THEN 0 ELSE CHOOSE i \in at : \A j \in at : i <= j

\* str::splitn(n, sep): at most n pieces, the last one holds the rest of s
RECURSIVE SplitN(_, _, _)
SplitN(s, n, sep) ==
    LET i == Find(s, sep)
    IN  IF n <= 1 \/ i = 0 THEN <<s>>
        ELSE <<SubSeq(s, 1, i - 1)>> \o SplitN(SubSeq(s, i + Len(sep), Len(s)), n - 1, sep)

\* str::split(sep): one piece more than there are occurrences of sep, so one
\* piece at least
Split(s, sep) == SplitN(s, Len(s) + 1, sep)

\* str::split_once(sep): Option<(&str, &str)>
SplitOnce(s, sep) ==
    LET i == Find(s, sep)
    IN  IF i = 0 THEN <<>>
        ELSE <<[before |-> SubSeq(s, 1, i - 1),
                after |-> SubSeq(s, i + Len(sep), Len(s))]>>

DigitValue(c) == CASE c = "0" -> 0 [] c = "1" -> 1 [] c = "2" -> 2

RECURSIVE Decimal(_)
Decimal(s) ==
    IF s = <<>> THEN 0
    ELSE 10 * Decimal(SubSeq(s, 1, Len(s) - 1)) + DigitValue(s[Len(s)])

\* str::parse::<usize>() with the ParseIntError mapped to ParseNumberError:
\* one digit or more and nothing else
ParseNumber(s) ==
    IF s # <<>> /\ \A i \in 1..Len(s) : s[i] \in Digits
    THEN Ok(Decimal(s))
    ELSE Err("ParseNumberError")

\* .collect::<Result<Vec<_>, _>>(): the values, or the first error
RECURSIVE CollectFrom(_, _)
CollectFrom(rs, acc) ==
    IF rs = <<>> THEN Ok(acc)
    ELSE IF Head(rs).val = <<>> THEN Err(Head(rs).err)
    ELSE CollectFrom(Tail(rs), Append(acc, Head(rs).val[1]))

Collect(rs) == CollectFrom(rs, <<>>)

\* ------------------------------------------------------------------ Range::from_str
\* fn extract_part(parts, id), id counted from 1 here
extract_part(parts, id) ==
    IF id > Len(parts) THEN Err("RangeParseError") ELSE ParseNumber(parts[id])

Range_from_str(s) ==
    LET parts == SplitN(Trim(s), 3, <<Space>>)
        destination_start == extract_part(parts, 1)
        source_start == extract_part(parts, 2)
        length == extract_part(parts, 3)
    IN  IF destination_start.val = <<>> THEN Err(destination_start.err)
        ELSE IF source_start.val = <<>> THEN Err(source_start.err)
        ELSE IF length.val = <<>> THEN Err(length.err)
        ELSE Ok(Range(destination_start.val[1], source_start.val[1], length.val[1]))

\* ------------------------------------------------------------------ CategoryMap::from_str
CategoryMap_from_str(s) ==
    LET lines == Split(s, <<LineFeed>>)
    IN  IF lines = <<>> THEN Err("MapHeaderMissingError")
        ELSE
        LET header == Head(lines)
            once == SplitOnce(header, <<Space>>)
        IN  IF once = <<>> THEN Err("MapHeaderParseError")
            ELSE
            LET mapping_info_parts == SplitN(once[1].before, 3, <<"-">>)
                ranges == Collect([i \in 1..(Len(lines) - 1) |-> Range_from_str(lines[i + 1])])
            IN  IF mapping_info_parts = <<>> THEN Err("MapHeaderParseError")
                ELSE IF ranges.val = <<>> THEN Err(ranges.err)
                ELSE Ok(CategoryMap(mapping_info_parts[1],
                                    mapping_info_parts[Len(mapping_info_parts)],
                                    ranges.val[1]))

\* ------------------------------------------------------------------ Almanac::from_str
Almanac_from_str(s) ==
    LET blocks == Split(s, <<LineFeed, LineFeed>>)
    IN  IF blocks = <<>> THEN Err("SeedBlockMissingError")
        ELSE
        LET words == Split(Trim(Head(blocks)), <<Space>>)
            seeds == Collect([i \in 1..(Len(words) - 1) |-> ParseNumber(words[i + 1])])
            maps == Collect([i \in 1..(Len(blocks) - 1) |-> CategoryMap_from_str(blocks[i + 1])])
        IN  IF seeds.val = <<>> THEN Err(seeds.err)
            ELSE IF maps.val = <<>> THEN Err(maps.err)
            ELSE Ok(Almanac(seeds.val[1], maps.val[1]))

\* ------------------------------------------------------------------ the texts
Join(a, sep, b) == a \o sep \o b

\* first blocks: a word and seeds, a word alone, seeds alone, two spaces in a
\* row, a line feed inside, nothing
SeedBlocks ==
    {<<"a", Space, "1">>,
     <<"a", Space, "1", Space, "2", "0">>,
     <<"a">>,
     <<"1", Space, "2">>,
     <<"a", Space, Space, "1">>,
     <<"a", Space, "1", LineFeed, "2">>,
     <<>>}

\* first lines of a map block: source-to-destination and a word, source and
\* destination with a dash inside the destination, a word without a dash, a
\* header without a space
Headers ==
    {<<"a", "-", "a", "-", "b", Space, "a">>,
     <<"a", "-", "b", "-", "b", "-", "a", Space, "a">>,
     <<"b", Space, "a">>,
     <<"a", "-", "b">>}

\* lines below the header: rules, a rule after a space, two numbers, four
\* numbers, a word among the numbers
Rows ==
    {<<"1", Space, "2", Space, "1">>,
     <<"2", "0", Space, "0", Space, "2">>,
     <<Space, "1", Space, "2", Space, "1">>,
     <<"1", Space, "2">>,
     <<"1", Space, "2", Space, "1", Space, "1">>,
     <<"1", Space, "a", Space, "1">>}

\* map blocks: a header with up to two rows below it, and rows without a header
MapBlocks ==
    Headers
    \cup {Join(h, <<LineFeed>>, r) : h \in Headers, r \in Rows}
    \cup {Join(Join(h, <<LineFeed>>, r1), <<LineFeed>>, r2) :
            h \in Headers, r1 \in Rows, r2 \in Rows}
    \cup Rows
    \cup {Join(r1, <<LineFeed>>, r2) : r1 \in Rows, r2 \in Rows}

\* every short text, and the texts of a first block and up to two map blocks
Texts ==
    SeqsUpTo(Chars, MaxText)
    \cup {Join(sb, <<LineFeed, LineFeed>>, mb) : sb \in SeedBlocks, mb \in MapBlocks}
    \cup {Join(Join(sb, <<LineFeed, LineFeed>>, mb1), <<LineFeed, LineFeed>>, mb2) :
            sb \in SeedBlocks, mb1 \in Headers \cup Rows, mb2 \in Headers \cup Rows}

\* ------------------------------------------------------------------ parse_input
\* the text reaches Almanac::from_str through parse_input or through
\* str::parse::<Almanac>()
InitParse ==
    /\ pc \in {"parse_input", "from_str"}
    /\ text \in Texts
    /\ parsed = NoResult
    /\ almanac = Almanac(<<>>, <<>>)
    /\ frames = <<>>
    /\ conv_dst = ""
    /\ applied = <<>>
    /\ conv_ret = <<>>
    /\ OverlapIdle
    /\ CalcIdle
    /\ ProcIdle

\* input.trim().parse().expect("Could not parse input file")
ParseInput ==
    /\ pc = "parse_input"
    /\ parsed' = Almanac_from_str(Trim(text))
    /\ pc' = IF parsed'.val = <<>> THEN "panic" ELSE "parsed"
    /\ UNCHANGED <<text, overlapVars, calcVars, almanac, convVars, procVars>>

\* s.parse::<Almanac>()
FromStr ==
    /\ pc = "from_str"
    /\ parsed' = Almanac_from_str(text)
    /\ pc' = "returned"
    /\ UNCHANGED <<text, overlapVars, calcVars, almanac, convVars, procVars>>

NextParse == ParseInput \/ FromStr

SpecParse == InitParse /\ [][NextParse]_vars

\* ------------------------------------------------------------------ helpers of the properties
\* the integers of the half-open range [start, start + length)
Points(sid) == {v \in sid.start..(sid.start + sid.length) : v < sid.start + sid.length}

RECURSIVE SumLength(_)
SumLength(s) == IF s = <<>> THEN 0 ELSE Head(s).length + SumLength(Tail(s))

PairwiseDisjoint(s) ==
    \A i, j \in 1..Len(s) : i # j => Points(s[i]) \cap Points(s[j]) = {}

UnionPoints(s) == UNION {Points(s[i]) : i \in 1..Len(s)}

Overlapped == pc \in {"overlapped", "translated", "translate_underflow"}

\* the pieces overlap returned: the matching portion, then the remaining pieces
Pieces == overlap_out.matching \o overlap_out.remaining

RuleSpan == SourceIdRange(range.source_start, range.length)

\* ------------------------------------------------------------------ claims on overlap
\* C4: the matching portion and the remaining pieces returned by overlap(R, I)
\* are pairwise disjoint, their union is exactly I, and their lengths sum to
\* I.length.
C4_OverlapCompleteness ==
    Overlapped =>
        /\ PairwiseDisjoint(Pieces)
        /\ UnionPoints(Pieces) = Points(source_id)
        /\ SumLength(Pieces) = source_id.length
        /\ \A i \in 1..Len(Pieces) :
              Pieces[i].length = 0 =>
                  /\ source_id.start <= Pieces[i].start
                  /\ Pieces[i].start <= source_id.start + source_id.length

\* the rule lies inside the id range and leaves a piece on both sides
C4_Witness ==
    /\ pc = "overlapped"
    /\ overlap_out.matching # <<>>
    /\ overlap_out.matching[1].length > 0
    /\ Len(overlap_out.remaining) = 2

\* C5: with a rule of length > 0 and an id range of length > 0, no piece
\* returned by overlap has length 0, the boundary positions included.
C5_NoZeroLengthPiece ==
    (Overlapped /\ range.length > 0 /\ source_id.length > 0) =>
        \A i \in 1..Len(Pieces) : Pieces[i].length > 0

\* C7: the integers of the matching portion (none when it is absent) are
\* exactly those common to the rule's source range and the id range.
C7_MatchingIsIntersection ==
    Overlapped =>
        /\ UnionPoints(overlap_out.matching) = Points(RuleSpan) \cap Points(source_id)
        /\ OverlapBranch(range, source_id) = 2 =>
              overlap_out.matching =
                <<SourceIdRange(source_id.start,
                                range.source_start + range.length - source_id.start)>>
        /\ OverlapBranch(range, source_id) = 3 => overlap_out.matching = <<source_id>>
        /\ OverlapBranch(range, source_id) = 4 => overlap_out.matching = <<RuleSpan>>
        /\ OverlapBranch(range, source_id) = 5 =>
              overlap_out.matching =
                <<SourceIdRange(range.source_start,
                                source_id.start + source_id.length - range.source_start)>>

\* the rule overlaps the right edge of the id range in more than one integer
C7_Witness ==
    /\ pc = "overlapped"
    /\ OverlapBranch(range, source_id) = 5
    /\ overlap_out.matching # <<>>
    /\ overlap_out.matching[1].length = 2

\* C8: a matching portion M returned by overlap(R, I) lies inside R's source
\* range, so translate(R, M) never subtracts below zero, starts at
\* M.start - R.source_start + R.destination_start and keeps M's length.
C8_TranslatePrecondition ==
    /\ pc # "translate_underflow"
    /\ (Overlapped /\ overlap_out.matching # <<>>) =>
          LET m == overlap_out.matching[1]
          IN  /\ range.source_start <= m.start
              /\ m.start + m.length <= range.source_start + range.length
    /\ pc = "translated" =>
          LET m == overlap_out.matching[1]
          IN  /\ translated[1].start + range.source_start
                   = m.start + range.destination_start
              /\ translated[1].length = m.length

\* a matching piece that starts after the rule's start has been translated
C8_Witness ==
    /\ pc = "translated"
    /\ overlap_out.matching[1].start > range.source_start
    /\ overlap_out.matching[1].length > 0
    /\ range.destination_start > 0

\* ------------------------------------------------------------------ the pointwise reading
Covers(r, v) == r.source_start <= v /\ v < r.source_start + r.length

\* one integer through one table: translated by the first rule that covers
\* it, itself when no rule covers it
MapValue(rs, v) ==
    IF \E i \in 1..Len(rs) : Covers(rs[i], v)
    THEN LET i == CHOOSE i \in 1..Len(rs) :
                    Covers(rs[i], v) /\ \A j \in 1..(i - 1) : ~Covers(rs[j], v)
         IN  v - rs[i].source_start + rs[i].destination_start
    ELSE v

NonOverlapping(rs) ==
    \A i, j \in 1..Len(rs) :
        i # j => \/ rs[i].length = 0
                 \/ rs[j].length = 0
                 \/ rs[i].source_start + rs[i].length <= rs[j].source_start
                 \/ rs[j].source_start + rs[j].length <= rs[i].source_start

\* the integers start, start + 1, ... of one id range, in a sequence
IdsOf(sid) == [k \in 1..sid.length |-> sid.start + k - 1]

\* the integers of the id ranges of s, one entry for every occurrence
RECURSIVE PointSeq(_)
PointSeq(s) == IF s = <<>> THEN <<>> ELSE IdsOf(Head(s)) \o PointSeq(Tail(s))

Occurrences(s, w) == Cardinality({i \in 1..Len(s) : s[i] = w})

\* the sequences a and b hold the same integers, each as often
SameBag(a, b) ==
    /\ Len(a) = Len(b)
    /\ \A i \in 1..Len(a) : Occurrences(a, a[i]) = Occurrences(b, a[i])

Least(S) == CHOOSE x \in S : \A y \in S : x <= y

\* ------------------------------------------------------------------ claims on calculate
\* the step-by-step run returns what the operator calculate computes
CalcStepsAgree == pc = "calculated" => output = calculate(map, source_ids)

\* C3: with rules that do not overlap each other, the integers of the output of
\* calculate are, with their multiplicities, the integers of the input mapped
\* one by one: by the rule that covers the integer, or to itself.
C3_CalculatePointwise ==
    (pc = "calculated" /\ NonOverlapping(map.ranges)) =>
        LET ins == PointSeq(source_ids)
            mapped == [i \in 1..Len(ins) |-> MapValue(map.ranges, ins[i])]
        IN  SameBag(PointSeq(output), mapped)

\* two rules that do not overlap split two id ranges into four pieces or more
C3_Witness ==
    /\ pc = "calculated"
    /\ NonOverlapping(map.ranges)
    /\ Len(map.ranges) = 2
    /\ \A i \in 1..2 : map.ranges[i].length > 0
    /\ map.ranges[1].destination_start # map.ranges[1].source_start
    /\ Len(source_ids) = 2
    /\ Len(output) >= 4

\* what calculate_single collects before its filter
Unfiltered(m, sid) ==
    LET done == RangesLoop(m.ranges, <<sid>>, <<>>)
    IN  TranslateAll(done.overlaps) \o done.remaining

\* C6: no id range of length 0 is in the output of calculate, whatever the
\* lengths of the input id ranges and of the rules.
C6_NoZeroLengthOutput ==
    \A i \in 1..Len(output) : output[i].length > 0

\* an id range of length 0 and a rule of length 0 went in, an id range of
\* length > 0 left a piece of length 0 to the filter, and something came out
C6_Witness ==
    /\ pc = "calculated"
    /\ \E i \in 1..Len(source_ids) : source_ids[i].length = 0
    /\ \E i \in 1..Len(map.ranges) : map.ranges[i].length = 0
    /\ \E i \in 1..Len(source_ids) :
          /\ source_ids[i].length > 0
          /\ \E k \in 1..Len(Unfiltered(map, source_ids[i])) :
                Unfiltered(map, source_ids[i])[k].length = 0
    /\ output # <<>>

\* ------------------------------------------------------------------ the chain, read from the catalog
HasFrom(ms, cat) == \E i \in 1..Len(ms) : ms[i].source = cat

TableFrom(ms, cat) == CHOOSE i \in 1..Len(ms) : ms[i].source = cat

\* the category n tables after cat, "" when the chain stops before
RECURSIVE Reach(_, _, _)
Reach(ms, cat, n) ==
    IF n = 0 THEN cat
    ELSE IF ~HasFrom(ms, cat) THEN ""
    ELSE Reach(ms, ms[TableFrom(ms, cat)].destination, n - 1)

\* the maps form one chain c0 -> c1 -> ... -> ck that starts at category c0
\* and takes every map, in any order of listing
LinearChainFrom(ms, c0) ==
    /\ ms # <<>>
    /\ \A i, j \in 1..Len(ms) :
          i # j => ms[i].source # ms[j].source /\ ms[i].destination # ms[j].destination
    /\ \A i \in 1..Len(ms) : ms[i].destination # c0
    /\ Reach(ms, c0, Len(ms)) # ""

\* the indexes of the maps from cat up to the map that ends in dst
RECURSIVE ChainIndexes(_, _, _, _)
ChainIndexes(ms, cat, dst, n) ==
    IF n = 0 \/ ~HasFrom(ms, cat) THEN <<>>
    ELSE LET i == TableFrom(ms, cat)
         IN  IF ms[i].destination = dst THEN <<i>>
             ELSE <<i>> \o ChainIndexes(ms, ms[i].destination, dst, n - 1)

\* the maps idxs applied in turn with calculate
RECURSIVE ApplyTables(_, _, _)
ApplyTables(ms, idxs, ids) ==
    IF idxs = <<>> THEN ids
    ELSE ApplyTables(ms, Tail(idxs), calculate(ms[Head(idxs)], ids))

\* one integer through the maps idxs in turn
RECURSIVE PointThrough(_, _, _)
PointThrough(ms, idxs, v) ==
    IF idxs = <<>> THEN v
    ELSE PointThrough(ms, Tail(idxs), MapValue(ms[Head(idxs)].ranges, v))

\* a linear chain from "seed" that ends in "location"
SeedToLocation(ms) ==
    LinearChainFrom(ms, "seed") /\ Reach(ms, "seed", Len(ms)) = "location"

SeedChain == ChainIndexes(almanac.maps, "seed", "location", Len(almanac.maps))

Location(v) == PointThrough(almanac.maps, SeedChain, v)

\* ------------------------------------------------------------------ claims on the queries
\* the pairs (start, length) of the seed list
SeedPairs ==
    {SourceIdRange(almanac.seeds[2 * k - 1], almanac.seeds[2 * k]) :
        k \in 1..(Len(almanac.seeds) \div 2)}

SeedRangePoints == UNION {Points(sr) : sr \in SeedPairs}

\* C1: on a linear chain from seed to location and a seed list of even length
\* with a pair of length > 0, process_part2 returns the smallest location of
\* any single integer of any seed range.
C1_Part2IsBruteForceMinimum ==
    (/\ SeedToLocation(almanac.maps)
     /\ Len(almanac.seeds) % 2 = 0
     /\ \E sr \in SeedPairs : sr.length > 0) =>
        /\ pc # "panic"
        /\ pc = "done" => answer = Least({Location(v) : v \in SeedRangePoints})

\* two maps with a rule each, two seed ranges, and the smallest location is
\* that of an integer inside a seed range, not of the start of one
C1_Witness ==
    /\ pc = "done"
    /\ query = "part2"
    /\ Len(almanac.maps) = 2
    /\ \A i \in 1..2 : almanac.maps[i].ranges # <<>>
    /\ Len(seed_ranges) = 2
    /\ \A sr \in SeedPairs : sr.length > 0 /\ answer < Location(sr.start)

\* C2: on a linear chain from seed to location and a seed list that is not
\* empty, process_part1 converts every seed as an id range of length 1 and
\* returns the smallest of the seeds' locations.
C2_Part1IsMinimumOfSeedLocations ==
    (SeedToLocation(almanac.maps) /\ almanac.seeds # <<>>) =>
        /\ pc # "panic"
        /\ pc \in {"convert", "converted"} =>
              frames[1] = Frame(<<SourceIdRange(almanac.seeds[seed_idx], 1)>>, "seed")
        /\ pc = "done" =>
              answer = Least({Location(almanac.seeds[i]) : i \in 1..Len(almanac.seeds)})

\* two maps with a rule each, three seeds or more, and the smallest location
\* is neither that of the first seed nor the smallest seed
C2_Witness ==
    /\ pc = "done"
    /\ query = "part1"
    /\ Len(almanac.maps) = 2
    /\ \A i \in 1..2 : almanac.maps[i].ranges # <<>>
    /\ Len(almanac.seeds) >= 3
    /\ answer # Location(almanac.seeds[1])
    /\ answer # Least({almanac.seeds[i] : i \in 1..Len(almanac.seeds)})

\* ------------------------------------------------------------------ claims on convert
IsPrefix(s, t) == Len(s) <= Len(t) /\ \A i \in 1..Len(s) : s[i] = t[i]

\* C9: on a linear chain c0 -> ... -> ck and a request (c0, cj), 1 <= j <= k,
\* convert applies the maps c0 -> c1, ..., c(j-1) -> cj in that order with
\* calculate, returns that result and applies no map beyond the one ending in cj.
C9_ConvertComposesChain ==
    (/\ query = "convert"
     /\ LinearChainFrom(almanac.maps, "seed")
     /\ \E i \in 1..Len(almanac.maps) : almanac.maps[i].destination = conv_dst) =>
        LET chain == ChainIndexes(almanac.maps, "seed", conv_dst, Len(almanac.maps))
        IN  /\ pc # "stack_overflow"
            /\ IsPrefix(applied, chain)
            /\ pc = "converted" =>
                  /\ applied = chain
                  /\ conv_ret = <<ApplyTables(almanac.maps, chain, frames[1].source_id)>>

\* a chain of three maps listed out of order, asked for its middle category:
\* two maps applied, the later listed one first, and the ids have moved
C9_Witness ==
    /\ pc = "converted"
    /\ query = "convert"
    /\ LinearChainFrom(almanac.maps, "seed")
    /\ Len(almanac.maps) = 3
    /\ Len(applied) = 2
    /\ applied[1] > applied[2]
    /\ conv_ret # <<>>
    /\ conv_ret[1] # frames[1].source_id

DirectExists(ms, src, dst) ==
    \E i \in 1..Len(ms) : ms[i].source = src /\ ms[i].destination = dst

\* the first map listed with that source and that destination
DirectTable(ms, src, dst) ==
    CHOOSE i \in 1..Len(ms) :
        /\ ms[i].source = src /\ ms[i].destination = dst
        /\ \A j \in 1..(i - 1) : ~(ms[j].source = src /\ ms[j].destination = dst)

\* C10: when the catalog has a map with the requested source and destination,
\* convert returns calculate of the first such map on its input and applies no
\* other map, also when a map with the same source is listed before it.
C10_ConvertPrefersDirect ==
    (query = "convert" /\ DirectExists(almanac.maps, "seed", conv_dst)) =>
        LET d == DirectTable(almanac.maps, "seed", conv_dst)
        IN  /\ Len(frames) = 1
            /\ pc # "stack_overflow"
            /\ pc = "converted" =>
                  /\ applied = <<d>>
                  /\ conv_ret = <<calculate(almanac.maps[d], frames[1].source_id)>>

\* the direct map is listed third, after a map with the same source and
\* another destination, and it moves the ids
C10_Witness ==
    /\ pc = "converted"
    /\ query = "convert"
    /\ applied = <<3>>
    /\ almanac.maps[1].source = "seed"
    /\ almanac.maps[1].destination \notin {"seed", conv_dst}
    /\ \E i \in 1..Len(almanac.maps) : almanac.maps[i].source = almanac.maps[1].destination
    /\ conv_ret # <<>>
    /\ conv_ret[1] # frames[1].source_id

\* ------------------------------------------------------------------ the walk of convert, read from the catalog
\* the first map listed with the category as its source
FirstTableFrom(ms, cat) ==
    CHOOSE i \in 1..Len(ms) :
        ms[i].source = cat /\ \A j \in 1..(i - 1) : ms[j].source # cat

\* how the walk from cat ends when it takes a map from the category to dst if
\* there is one and else the first map listed from the category: at a direct
\* map, at a category without a map, or never, back at a category it has left
RECURSIVE WalkEnd(_, _, _, _)
WalkEnd(ms, cat, dst, seen) ==
    IF DirectExists(ms, cat, dst) THEN "direct"
    ELSE IF ~HasFrom(ms, cat) THEN "missing"
    ELSE LET nxt == ms[FirstTableFrom(ms, cat)].destination
         IN  IF nxt \in seen \cup {cat} THEN "cycle"
             ELSE WalkEnd(ms, nxt, dst, seen \cup {cat})

\* the indexes of the first n maps of that walk
RECURSIVE WalkIndexes(_, _, _, _)
WalkIndexes(ms, cat, dst, n) ==
    IF n = 0 THEN <<>>
    ELSE IF DirectExists(ms, cat, dst) THEN <<DirectTable(ms, cat, dst)>>
    ELSE IF ~HasFrom(ms, cat) THEN <<>>
    ELSE LET i == FirstTableFrom(ms, cat)
         IN  <<i>> \o WalkIndexes(ms, ms[i].destination, dst, n - 1)

\* ------------------------------------------------------------------ claims on the errors of convert
\* C11: when convert is asked, at once or after it followed maps, for a source
\* category that no map has as its source, it returns None and not the ids it
\* holds; process_part1 and process_part2 then panic and never return a number.
C11_MissingMappingIsError ==
    /\ (pc = "converted" /\ ~HasFrom(almanac.maps, Top.source)) => conv_ret = <<>>
    /\ WalkEnd(almanac.maps, "seed", "location", {}) = "missing" =>
          /\ pc # "done"
          /\ found = <<>>
          /\ answer = 0

\* process_part1 with three seeds panicked on the first: convert had followed
\* a map that moved the seed and then found no map from the category reached
C11_Witness ==
    /\ pc = "panic"
    /\ query = "part1"
    /\ Len(almanac.seeds) = 3
    /\ seed_idx = 1
    /\ Len(frames) = 2
    /\ frames[2].source_id # <<>>
    /\ frames[2].source_id # frames[1].source_id
    /\ ~HasFrom(almanac.maps, frames[2].source)
    /\ conv_ret = <<>>

\* the destinations of the maps that have a category of S as their source
Step(ms, S) == {ms[i].destination : i \in {j \in 1..Len(ms) : ms[j].source \in S}}

\* the categories that 1 to n maps in a row lead to from the categories of S
RECURSIVE ReachableFrom(_, _, _)
ReachableFrom(ms, S, n) ==
    IF n = 0 THEN {}
    ELSE Step(ms, S) \cup ReachableFrom(ms, Step(ms, S), n - 1)

\* some sequence of maps leads from src to dst
PathExists(ms, src, dst) == dst \in ReachableFrom(ms, {src}, Len(ms))

\* C12: on every catalog, with maps that share a source or that form a cycle
\* too, a request for a pair of categories that no sequence of maps connects
\* ends with convert returning None: it never returns id ranges, and it does
\* not run out of stack.
C12_UnresolvableIsRejected ==
    (query = "convert" /\ ~PathExists(almanac.maps, "seed", conv_dst)) =>
        /\ pc # "stack_overflow"
        /\ pc = "converted" => conv_ret = <<>>

\* ------------------------------------------------------------------ claims on the choice of the maps
\* the category the walk holds after its first n maps
WalkCategory(ms, idxs, n) == IF n = 0 THEN "seed" ELSE ms[idxs[n]].destination

\* C13: the run of convert is a function of the catalog, the input id ranges
\* and the requested pair: the maps it applies are those of the walk read from
\* the order of the catalog alone, whatever the id ranges, every call holds
\* the input taken through the maps before it, and the outcome (None, Some
\* with its id ranges in their order, or no end) is fixed by these, also when
\* several maps share a source category.
C13_ConvertIsFunctionOfInputs ==
    query = "convert" =>
        LET ms == almanac.maps
            walk == WalkIndexes(ms, "seed", conv_dst, MaxDepth)
            end == WalkEnd(ms, "seed", conv_dst, {})
            input == frames[1].source_id
        IN  /\ IsPrefix(applied, walk)
            /\ \A k \in 1..Len(frames) :
                  frames[k] = Frame(ApplyTables(ms, SubSeq(walk, 1, k - 1), input),
                                    WalkCategory(ms, walk, k - 1))
            /\ pc = "stack_overflow" => end = "cycle"
            /\ pc = "converted" =>
                  /\ end # "cycle"
                  /\ applied = walk
                  /\ conv_ret = IF end = "direct"
                                THEN <<ApplyTables(ms, walk, input)>>
                                ELSE <<>>

\* two maps from seed are listed, none of them to the requested category:
\* the first listed was followed, a later map ended the walk, and the two id
\* ranges of the input came out moved
C13_Witness ==
    /\ pc = "converted"
    /\ query = "convert"
    /\ Len(almanac.maps) = 3
    /\ almanac.maps[1].source = "seed"
    /\ \E j \in 2..3 :
          /\ almanac.maps[j].source = "seed"
          /\ almanac.maps[j].destination \notin {almanac.maps[1].destination, conv_dst}
    /\ Len(applied) = 2
    /\ applied[1] = 1
    /\ Len(frames[1].source_id) = 2
    /\ conv_ret # <<>>
    /\ conv_ret[1] # frames[1].source_id

\* ------------------------------------------------------------------ claims on the parsers
\* the blocks of a text: what a blank line separates
BlocksOf(s) == Split(s, <<LineFeed, LineFeed>>)

AllDigits(s) == s # <<>> /\ \A i \in 1..Len(s) : s[i] \in Digits

\* a line of three numbers with one space between them
RuleRow(s) ==
    LET w == Split(s, <<Space>>)
    IN  Len(w) = 3 /\ \A i \in 1..3 : AllDigits(w[i])

\* the text has no seed block: nothing stands before its first blank line
SeedBlockAbsent(s) == Trim(Head(BlocksOf(s))) = <<>>

\* a block after the first starts with a rule row and not with a header
HeaderlessBlock(s) ==
    \E k \in 2..Len(BlocksOf(s)) : RuleRow(Head(Split(BlocksOf(s)[k], <<LineFeed>>)))

Returned == pc \in {"parsed", "panic", "returned"}

\* the text that went into Almanac::from_str
Given == IF pc = "returned" THEN text ELSE Trim(text)

\* C14: a text without a seed block (the empty text is one), or with a map
\* block that starts with a rule row and not with a header, is not parsed
\* into an Almanac: the parser returns an error; and no Almanac it returns has
\* an empty seed list or a map whose source was read from a rule row.
C14_AbsentBlockIsParseError ==
    Returned =>
        /\ (SeedBlockAbsent(Given) \/ HeaderlessBlock(Given)) => parsed.val = <<>>
        /\ parsed.val # <<>> =>
              /\ parsed.val[1].seeds # <<>>
              /\ \A i \in 1..Len(parsed.val[1].maps) : ~AllDigits(parsed.val[1].maps[i].source)

\* ------------------------------------------------------------------ claims on the loop of calculate_single
\* the id range sid lies inside the source range of the rule r
Inside(sid, r) ==
    /\ r.source_start <= sid.start
    /\ sid.start + sid.length <= r.source_start + r.length

\* the matching pieces collected so far, without their rules
MatchingPieces == [i \in 1..Len(overlaps) |-> overlaps[i].piece]

\* C15: in calculate_single on the id range I, after the rules before ridx:
\* the matching pieces collected and the remaining pieces are pairwise
\* disjoint and cover exactly I, every matching piece lies inside the source
\* range of the rule recorded with it, a rule already handled, and no
\* remaining piece holds an integer of the source range of a rule handled.
C15_LoopInvariant ==
    pc = "ranges" =>
        LET all == MatchingPieces \o remaining
        IN  /\ PairwiseDisjoint(all)
            /\ UnionPoints(all) = Points(source_ids[next_id])
            /\ \A i \in 1..Len(overlaps) :
                  /\ Inside(overlaps[i].piece, overlaps[i].range)
                  /\ \E j \in 1..(ridx - 1) : overlaps[i].range = map.ranges[j]
            /\ \A k \in 1..Len(remaining) : \A j \in 1..(ridx - 1) :
                  \A v \in Points(remaining[k]) : ~Covers(map.ranges[j], v)

\* both rules are handled: each took a piece of I, the second from what the
\* first had left, and a piece of I is still remaining
C15_Witness ==
    /\ pc = "ranges"
    /\ ridx = 3
    /\ Len(overlaps) = 2
    /\ overlaps[1].range = map.ranges[1]
    /\ overlaps[2].range = map.ranges[2]
    /\ overlaps[1].range # overlaps[2].range
    /\ \A i \in 1..2 : overlaps[i].piece.length > 0
    /\ \E k \in 1..Len(remaining) : remaining[k].length > 0

\* the first rule of rs that covers v
FirstCovering(rs, v) ==
    CHOOSE i \in 1..Len(rs) : Covers(rs[i], v) /\ \A j \in 1..(i - 1) : ~Covers(rs[j], v)

\* C19: in a table with two or more rules whose source ranges share an
\* integer, every integer of the input id range comes out of calculate_single
\* exactly once: translated by the first rule in the table that covers it, or
\* as itself when no rule covers it; in the loop every matching piece is
\* recorded with the first rule that covers its integers.
C19_FirstRuleWins ==
    ~NonOverlapping(map.ranges) =>
        /\ pc = "ranges" =>
              \A i \in 1..Len(overlaps) : \A v \in Points(overlaps[i].piece) :
                  overlaps[i].range = map.ranges[FirstCovering(map.ranges, v)]
        /\ pc = "calculated" =>
              LET ins == IdsOf(source_ids[1])
                  mapped == [i \in 1..Len(ins) |-> MapValue(map.ranges, ins[i])]
              IN  SameBag(PointSeq(output), mapped)

\* both rules cover an integer of the input and would move it to different
\* places, the second rule also covers an integer the first does not, and the
\* output is there
C19_Witness ==
    /\ pc = "calculated"
    /\ Len(map.ranges) = 2
    /\ LET r1 == map.ranges[1]
           r2 == map.ranges[2]
           I == Points(source_ids[1])
       IN  /\ \E v \in I : /\ Covers(r1, v) /\ Covers(r2, v)
                            /\ r1.destination_start - r1.source_start
                                  # r2.destination_start - r2.source_start
           /\ \E u \in I : Covers(r2, u) /\ ~Covers(r1, u)
    /\ Len(output) >= 2

\* ------------------------------------------------------------------ claims on convert and its id ranges
\* what convert returns for the id ranges ids alone when the walk of the
\* request ends at a direct map
ConvertAlone(ids) ==
    ApplyTables(almanac.maps, WalkIndexes(almanac.maps, "seed", conv_dst, MaxDepth), ids)

\* the starts of the id ranges of s
Starts(s) == {s[i].start : i \in 1..Len(s)}

\* C16: when convert returns Some for the id ranges A ++ B, the result is the
\* result for A alone followed by the result for B alone, at every place the
\* input can be cut; so the smallest start of the result is the smallest of
\* the smallest starts of the results of the single id ranges.
C16_ConvertDistributes ==
    (query = "convert" /\ pc = "converted" /\ conv_ret # <<>>) =>
        LET ids == frames[1].source_id
            single == [i \in 1..Len(ids) |-> ConvertAlone(<<ids[i]>>)]
        IN  /\ \A k \in 0..Len(ids) :
                  conv_ret[1] = ConvertAlone(SubSeq(ids, 1, k))
                                  \o ConvertAlone(SubSeq(ids, k + 1, Len(ids)))
            /\ Starts(conv_ret[1]) = UNION {Starts(single[i]) : i \in 1..Len(ids)}
            /\ conv_ret[1] # <<>> =>
                  MinStart(conv_ret[1])
                    = Least({MinStart(single[i]) : i \in {j \in 1..Len(ids) : single[j] # <<>>}})

\* two id ranges through two maps or more: the first one comes out in two
\* pieces or more, and the smallest start is one of the second
C16_Witness ==
    /\ pc = "converted"
    /\ query = "convert"
    /\ conv_ret # <<>>
    /\ Len(applied) >= 2
    /\ Len(frames[1].source_id) = 2
    /\ Len(ConvertAlone(<<frames[1].source_id[1]>>)) >= 2
    /\ ConvertAlone(<<frames[1].source_id[2]>>) # <<>>
    /\ MinStart(conv_ret[1]) \notin Starts(ConvertAlone(<<frames[1].source_id[1]>>))

\* ------------------------------------------------------------------ claims on the end of convert
\* following maps from category to category never comes back to a category
Acyclic(ms) == \A c \in Categories : c \notin ReachableFrom(ms, {c}, Len(ms))

\* C17: on a catalog whose maps never lead back to a category, maps that
\* share a source included, every call of convert ends, with Some or None:
\* a call that has not returned returns or goes on to a next map and has the
\* stack for it, every step it took applied a map, it applies no map twice
\* and no more maps than the catalog holds.
C17_TerminatesOnAcyclic ==
    query = "convert" =>
        \/ /\ pc \in {"convert", "converted"}
           /\ pc = "convert" =>
                 /\ ~ENABLED ConvertOverflow
                 /\ Len(applied) = Len(frames) - 1
           /\ Len(applied) <= Len(almanac.maps)
           /\ \A i, j \in 1..Len(applied) : i # j => applied[i] # applied[j]
        \/ ~Acyclic(almanac.maps)

\* three maps without a cycle, two of them from the same category: convert
\* followed maps through three categories, applied every map and returned
C17_Witness ==
    /\ pc = "converted"
    /\ query = "convert"
    /\ Acyclic(almanac.maps)
    /\ Len(almanac.maps) = 3
    /\ Len(applied) = 3
    /\ Len(frames) = 3

\* ------------------------------------------------------------------ claims on the order of the output
\* the integers of the id range sid that rule k of rs is the first to cover
FirstCoveredBy(rs, k, sid) ==
    {v \in Points(sid) : Covers(rs[k], v) /\ \A j \in 1..(k - 1) : ~Covers(rs[j], v)}

\* the integers of the id range sid that no rule of rs covers
Uncovered(rs, sid) == {v \in Points(sid) : \A j \in 1..Len(rs) : ~Covers(rs[j], v)}

\* the integers that the rule r translated into the pieces of s
Back(r, s) ==
    UNION {{v - r.destination_start + r.source_start : v \in Points(s[i])} : i \in 1..Len(s)}

\* s is, in this order: the pieces translated by rule k, by rule k + 1, ...,
\* by the last rule, each rule's pieces holding just the integers of sid it
\* is the first to cover, and then the pieces no rule covers, as they were
RECURSIVE InRuleOrder(_, _, _, _)
InRuleOrder(s, rs, k, sid) ==
    IF k > Len(rs)
    THEN LET rest == Uncovered(rs, sid)
         IN  SumLength(s) = Cardinality(rest) /\ UnionPoints(s) = rest
    ELSE LET first == FirstCoveredBy(rs, k, sid)
             n == Cardinality(first)
         IN  \E a \in 0..Len(s) :
                /\ SumLength(SubSeq(s, 1, a)) = n
                /\ Back(rs[k], SubSeq(s, 1, a)) = first
                /\ InRuleOrder(SubSeq(s, a + 1, Len(s)), rs, k + 1, sid)

\* s is the results for the id ranges of ids one after the other, each in
\* rule order
RECURSIVE InInputOrder(_, _, _)
InInputOrder(s, rs, ids) ==
    IF ids = <<>> THEN s = <<>>
    ELSE \E c \in 0..Len(s) :
            /\ SumLength(SubSeq(s, 1, c)) = Head(ids).length
            /\ InRuleOrder(SubSeq(s, 1, c), rs, 1, Head(ids))
            /\ InInputOrder(SubSeq(s, c + 1, Len(s)), rs, Tail(ids))

\* C18: the output of calculate is the results for the id ranges of the
\* input, in the order of the input; the result for one id range holds the
\* pieces translated by the first rule, then those translated by the second
\* rule, and after them the pieces that no rule covers, untranslated.
C18_OutputOrder ==
    pc = "calculated" => InInputOrder(output, map.ranges, source_ids)

\* two id ranges, two rules that each translate a piece of the first id
\* range to another place and leave a piece of it uncovered; the second id
\* range comes out too, and the output is not sorted by start
C18_Witness ==
    /\ pc = "calculated"
    /\ Len(source_ids) = 2
    /\ Len(map.ranges) = 2
    /\ \A k \in 1..2 :
          /\ FirstCoveredBy(map.ranges, k, source_ids[1]) # {}
          /\ map.ranges[k].destination_start # map.ranges[k].source_start
    /\ Uncovered(map.ranges, source_ids[1]) # {}
    /\ source_ids[2].length > 0
    /\ Len(output) >= 4
    /\ \E i \in 1..(Len(output) - 1) : output[i].start > output[i + 1].start

====
